---- MODULE Spec2Model ----
(***************************************************************************)
(* OneScore: the grid scoreboard editor (src/src/image.py), its threaded   *)
(* draw(), the module-level text lock, and the ScoreObject score model     *)
(* (src/src/score.py), the listeners that keep the scores table           *)
(* (src/src/ext/listeners.py, with on_ready's reconciliation), the         *)
(* single-member card (ScoreEditor) and get_scoreboard                     *)
(* (src/src/bot/commands.py).                                              *)
(*                                                                         *)
(* Members of one scoreboard are numbered 1..n in list order; the code's   *)
(* 0-based enumerate index of member j is j - 1.  A position is <<x, y>>.  *)
(***************************************************************************)
EXTENDS Integers, Sequences, FiniteSets, TLC

VARIABLES
    mainPc,       \* where the caller of GridScoreboardEditor is
    n,            \* len(self.members_and_scores)
    canvas,       \* <<width, height>> handed to Canvas(...) by __init__, <<0, 0>> if none
    image,        \* <<self.image.width, self.image.height>>
    x_position,   \* draw(): local x_position
    y_position,   \* draw(): local y_position
    queue,        \* draw(): local queue, the position bound to each Thread
    k,            \* draw(): how far the current `for ... in queue/done` loop is
    pc,           \* per render thread: where between_callback / draw_member is
    lock,         \* image.lock: 0 free, j held by thread j's acquire, Stale held by a dead thread of an earlier draw
    done,         \* draw(): local done, in append order
    pasted,       \* the self.paste calls made so far, in call order
    header,       \* whether draw_header has drawn
    _score,       \* ScoreObject._score of the object under evaluation
    called,       \* which ScoreObject property was evaluated last
    result,       \* what that evaluation produced
    scores,       \* the table `scores`: (member_id, guild_id) -> [score, active]
    roster,       \* the (member, guild) pairs with the member in guild.members
    guilds,       \* bot.guilds
    event,        \* the last listener or query that ran, with its arguments and value
    member_status, \* ScoreEditor: self.member.status
    cardPc,       \* ScoreEditor: the method that ran last, "none" before construction
    cardErr,      \* ScoreEditor: the exception that method raised, "" if it returned
    status_image, \* ScoreEditor: the status disc draw_status pasted
    trough,       \* ScoreEditor: whether draw_progress drew the bar's background
    bar           \* ScoreEditor: the percentage draw_progress handed to self.bar

vars == <<mainPc, n, canvas, image, x_position, y_position, queue, k, pc, lock,
          done, pasted, header, _score, called, result, scores, roster, guilds, event,
          member_status, cardPc, cardErr, status_image, trough, bar>>

gridVars == <<mainPc, n, canvas, image, x_position, y_position, queue, k, pc, lock,
              done, pasted, header>>

scoreVars == <<_score, called, result>>

storeVars == <<scores, roster, guilds, event>>

\* What the actions of one component leave alone of the others.
cardVars == <<member_status, cardPc, cardErr, status_image, trough, bar>>

offGrid == <<scoreVars, storeVars, cardVars>>
offScore == <<gridVars, storeVars, cardVars>>
offStore == <<gridVars, scoreVars, cardVars>>
offCard == <<gridVars, storeVars>>

(***************************************************************************)
(* Bounds of the model                                                     *)
(***************************************************************************)
MaxMembers == 4        \* members of a scoreboard whose threads are interleaved
MaxScore == 120        \* scores 0..MaxScore are evaluated, besides BoundaryScores
RecursionLimit == 12   \* call depth at which the interpreter raises RecursionError

(***************************************************************************)
(* Program constants                                                       *)
(***************************************************************************)
COL_WIDTH == 400
COL_HEIGHT == 400
HEAD_HEIGHT == 200
MARGIN == 60
MAX_COLS == 6
ScoreboardLimit == 18  \* get_scoreboard: "... ORDER BY score DESC LIMIT 18"
PasteShift == 10       \* draw(): self.paste(member_image, (position[0]-10, position[1]))
BackgroundShift == 10  \* draw_background(): editor.paste(background, (10, 0))
AcquireTimeout == 5    \* draw_level(): lock.acquire(True, timeout=5), seconds
LIST_COL_WIDTH == 3250 \* ListScoreboardEditor.COL_WIDTH
LIST_COL_HEIGHT == 300 \* ListScoreboardEditor.COL_HEIGHT
LIST_MARGIN == 60      \* ListScoreboardEditor.MARGIN

Stale == 0 - 1

Min(a, b) == IF a < b THEN a ELSE b
Max(a, b) == IF a > b THEN a ELSE b

Threads == DOMAIN pc

(***************************************************************************)
(* GridScoreboardEditor.__init__                                           *)
(***************************************************************************)
GridWidth(m) == MARGIN + ((COL_WIDTH + MARGIN) * Min(m, MAX_COLS))

GridHeight(m) == HEAD_HEIGHT + MARGIN + ((COL_HEIGHT + MARGIN) * (m \div MAX_COLS))

\* A constructor that never takes its argument for empty.
NeverEmpty(m) == FALSE

\* `if not members_and_scores:` of GridScoreboardEditor.__init__
GridEmpty(m) == m = 0

GridInit(m) ==
    /\ mainPc = "new"
    /\ n' = m
    /\ IF GridEmpty(m)
          THEN /\ mainPc' = "ValueError"
               /\ UNCHANGED <<canvas, image>>
          ELSE /\ mainPc' = "constructed"
               /\ canvas' = <<GridWidth(m), GridHeight(m)>>
               /\ image' = <<GridWidth(m), GridHeight(m)>>
    /\ UNCHANGED <<x_position, y_position, queue, k, pc, lock, done, pasted, header>>
    /\ UNCHANGED offGrid

(***************************************************************************)
(* ListScoreboardEditor.__init__                                           *)
(***************************************************************************)
ListWidth(m) == LIST_COL_WIDTH + (LIST_MARGIN * 2)

ListHeight(m) == ((LIST_COL_HEIGHT + LIST_MARGIN) * m) + LIST_MARGIN

\* `if not members_and_scores:` of ListScoreboardEditor.__init__
ListEmpty(m) == m = 0

ListInit(m) ==
    /\ mainPc = "new"
    /\ n' = m
    /\ IF ListEmpty(m)
          THEN /\ mainPc' = "ValueError"
               /\ UNCHANGED <<canvas, image>>
          ELSE /\ mainPc' = "list_constructed"
               /\ canvas' = <<ListWidth(m), ListHeight(m)>>
               /\ image' = <<ListWidth(m), ListHeight(m)>>
    /\ UNCHANGED <<x_position, y_position, queue, k, pc, lock, done, pasted, header>>
    /\ UNCHANGED offGrid

(***************************************************************************)
(* GridScoreboardEditor.draw, the caller's side                            *)
(***************************************************************************)
DrawBegin ==
    /\ mainPc = "constructed"
    /\ x_position' = MARGIN
    /\ y_position' = HEAD_HEIGHT + MARGIN
    /\ queue' = <<>>
    /\ done' = <<>>
    /\ mainPc' = "plan"
    /\ UNCHANGED <<n, canvas, image, k, pc, lock, pasted, header>>
    /\ UNCHANGED offGrid

\* A loop that tests the index before `i += 1`.
WrapsRowBeforeIncrement(i) == (i - 1) % MAX_COLS = 0

\* `if i % self.MAX_COLS == 0:` with i already incremented
WrapsRow(i) == i % MAX_COLS = 0

\* One iteration of `for i, (member, score) in enumerate(self.members_and_scores)`.
PlanStep ==
    /\ mainPc = "plan"
    /\ Len(queue) < n
    /\ LET i == Len(queue) + 1   \* enumerate's i after `i += 1`
       IN /\ queue' = Append(queue, <<x_position, y_position>>)
          /\ pc' = Append(pc, "created")
          /\ IF WrapsRow(i)
                THEN /\ y_position' = y_position + COL_HEIGHT + MARGIN
                     /\ x_position' = MARGIN
                ELSE /\ x_position' = x_position + COL_WIDTH + MARGIN
                     /\ UNCHANGED y_position
          /\ IF i = n
                THEN /\ mainPc' = "start"
                     /\ k' = 0
                ELSE UNCHANGED <<mainPc, k>>
    /\ UNCHANGED <<n, canvas, image, lock, done, pasted, header>>
    /\ UNCHANGED offGrid

\* One iteration of `for thread in queue: thread.start()`.
StartThread ==
    /\ mainPc = "start"
    /\ pc' = [pc EXCEPT ![k + 1] = "fetch"]
    /\ IF k + 1 = n
          THEN /\ mainPc' = "join"
               /\ k' = 0
          ELSE /\ k' = k + 1
               /\ UNCHANGED mainPc
    /\ UNCHANGED <<n, canvas, image, x_position, y_position, queue, lock, done, pasted, header>>
    /\ UNCHANGED offGrid

Settled(j) == pc[j] \in {"done", "AvatarFetchError", "RankError", "RuntimeError"}

\* A join that returns without waiting for the thread.
JoinReturnsAtOnce(j) == TRUE

\* thread.join() returns once the thread has terminated, normally or by an exception.
JoinReturns(j) == Settled(j)

\* One iteration of `for thread in queue: thread.join()`.
JoinThread ==
    /\ mainPc = "join"
    /\ JoinReturns(k + 1)
    /\ IF k + 1 = n
          THEN /\ mainPc' = IF Len(done) = 0 THEN "finish" ELSE "paste"
               /\ k' = 0
          ELSE /\ k' = k + 1
               /\ UNCHANGED mainPc
    /\ UNCHANGED <<n, canvas, image, x_position, y_position, queue, pc, lock, done, pasted, header>>
    /\ UNCHANGED offGrid

\* A paste loop that walks `done` backwards.
PasteNextReversed(it) == done[Len(done) + 1 - it]

\* The element of `done` that the paste loop visits in its iteration number it (1-based).
PasteNext(it) == done[it]

\* One iteration of `for member_image, position in done: self.paste(...)`.
PasteCell ==
    /\ mainPc = "paste"
    /\ LET e == PasteNext(k + 1)
       IN pasted' = Append(pasted, [cell |-> e.cell,
                                    at |-> <<e.position[1] - PasteShift, e.position[2]>>])
    /\ IF k + 1 = Len(done)
          THEN /\ mainPc' = "finish"
               /\ k' = 0
          ELSE /\ k' = k + 1
               /\ UNCHANGED mainPc
    /\ UNCHANGED <<n, canvas, image, x_position, y_position, queue, pc, lock, done, header>>
    /\ UNCHANGED offGrid

\* draw_header (when the image is wider than two cells; its icon fetch may raise),
\* rounded_corners and antialias.
Finish(icon) ==
    /\ mainPc = "finish"
    /\ IF image[1] > COL_WIDTH * 2 /\ icon = "fails"
          THEN /\ mainPc' = "NetworkError"
               /\ UNCHANGED <<image, header>>
          ELSE /\ header' = (image[1] > COL_WIDTH * 2)
               /\ image' = <<image[1] \div 2, image[2] \div 2>>
               /\ mainPc' = "drawn"
    /\ UNCHANGED <<n, canvas, x_position, y_position, queue, k, pc, lock, done, pasted>>
    /\ UNCHANGED offGrid

\* The next scoreboard request: a new editor; the module-level lock is what it was.
NewRequest ==
    /\ mainPc \in {"drawn", "NetworkError", "ValueError"}
    /\ mainPc' = "new"
    /\ n' = 0
    /\ canvas' = <<0, 0>>
    /\ image' = <<0, 0>>
    /\ x_position' = 0
    /\ y_position' = 0
    /\ queue' = <<>>
    /\ k' = 0
    /\ pc' = <<>>
    /\ done' = <<>>
    /\ pasted' = <<>>
    /\ header' = FALSE
    /\ lock' = IF lock = 0 THEN 0 ELSE Stale
    /\ UNCHANGED offGrid

(***************************************************************************)
(* between_callback / draw_member, one render thread                       *)
(***************************************************************************)
threadFrame == <<mainPc, n, canvas, image, x_position, y_position, queue, k, pasted, header>>

\* What `await load_image_async(url)` does: it returns the image, raises, or
\* does not come back (it is awaited without a timeout).
Fetches == {"returns", "raises", "stalls"}

\* draw_background, then draw_avatar.
DrawAvatar(j, fetched) ==
    /\ pc[j] = "fetch"
    /\ pc' = [pc EXCEPT ![j] = CASE fetched = "returns" -> "acquire"
                                 [] fetched = "raises" -> "AvatarFetchError"
                                 [] OTHER -> "stalled"]
    /\ UNCHANGED <<lock, done>>
    /\ UNCHANGED threadFrame
    /\ UNCHANGED offGrid

\* draw_name, then draw_level's lock.acquire(True, timeout=5) when the lock is free.
LockAcquire(j) ==
    /\ pc[j] = "acquire"
    /\ lock = 0
    /\ lock' = j
    /\ pc' = [pc EXCEPT ![j] = "text"]
    /\ UNCHANGED done
    /\ UNCHANGED threadFrame
    /\ UNCHANGED offGrid

\* lock.acquire(True, timeout=5) gives up after AcquireTimeout seconds of the lock
\* being held; it returns False, which draw_level does not look at.
LockTimeout(j) ==
    /\ pc[j] = "acquire"
    /\ lock # 0
    /\ pc' = [pc EXCEPT ![j] = "text"]
    /\ UNCHANGED <<lock, done>>
    /\ UNCHANGED threadFrame
    /\ UNCHANGED offGrid

\* editor.text(level_position, f"#{score.rank}", ...): the rank lookup returns or raises.
LevelText(j, ranked) ==
    /\ pc[j] = "text"
    /\ pc' = [pc EXCEPT ![j] = IF ranked THEN "release" ELSE "RankError"]
    /\ UNCHANGED <<lock, done>>
    /\ UNCHANGED threadFrame
    /\ UNCHANGED offGrid

\* lock.release(): unlocks whoever locked it; RuntimeError on an unlocked lock.
LockRelease(j) ==
    /\ pc[j] = "release"
    /\ IF lock = 0
          THEN /\ pc' = [pc EXCEPT ![j] = "RuntimeError"]
               /\ UNCHANGED lock
          ELSE /\ pc' = [pc EXCEPT ![j] = "append"]
               /\ lock' = 0
    /\ UNCHANGED done
    /\ UNCHANGED threadFrame
    /\ UNCHANGED offGrid

\* A callback that takes the next free position, in completion order.
DonePositionByCompletion(j) == queue[Len(done) + 1]

\* The position between_callback appends with thread j's image.
DonePosition(j) == queue[j]

\* done.append((member_image, position))
DoneAppend(j) ==
    /\ pc[j] = "append"
    /\ done' = Append(done, [cell |-> [member |-> j, kind |-> "normal"],
                             position |-> DonePosition(j)])
    /\ pc' = [pc EXCEPT ![j] = "done"]
    /\ UNCHANGED lock
    /\ UNCHANGED threadFrame
    /\ UNCHANGED offGrid

(***************************************************************************)
(* The scoreboard specification                                            *)
(***************************************************************************)
Init ==
    /\ mainPc = "new"
    /\ n = 0
    /\ canvas = <<0, 0>>
    /\ image = <<0, 0>>
    /\ x_position = 0
    /\ y_position = 0
    /\ queue = <<>>
    /\ k = 0
    /\ pc = <<>>
    /\ lock = 0
    /\ done = <<>>
    /\ pasted = <<>>
    /\ header = FALSE
    /\ _score = 0
    /\ called = "none"
    /\ result = [err |-> "", kind |-> "number", num |-> 0, den |-> 1]
    /\ scores = <<>>
    /\ roster = {}
    /\ guilds = {}
    /\ event = [name |-> "none", member |-> 0, guild |-> 0, value |-> 0]
    /\ member_status = "none"
    /\ cardPc = "none"
    /\ cardErr = ""
    /\ status_image = [colour |-> "None", icon |-> "None", at |-> <<>>]
    /\ trough = FALSE
    /\ bar = [err |-> "", kind |-> "none", num |-> 0, den |-> 1]

Next ==
    \/ \E m \in 0..MaxMembers : GridInit(m)
    \/ DrawBegin
    \/ PlanStep
    \/ StartThread
    \/ JoinThread
    \/ PasteCell
    \/ \E icon \in {"none", "fetched", "fails"} : Finish(icon)
    \/ NewRequest
    \/ \E j \in Threads, fetched \in Fetches : DrawAvatar(j, fetched)
    \/ \E j \in Threads : LockAcquire(j)
    \/ \E j \in Threads : LockTimeout(j)
    \/ \E j \in Threads, ranked \in BOOLEAN : LevelText(j, ranked)
    \/ \E j \in Threads : LockRelease(j)
    \/ \E j \in Threads : DoneAppend(j)

Spec == Init /\ [][Next]_vars

(***************************************************************************)
(* ScoreObject (src/src/score.py).  A property evaluation yields a record: *)
(* err is "" or the exception raised; kind "number" is the exact rational  *)
(* num/den (den > 0); kind "level" is the real 0.07 * sqrt(num/den) + 1,   *)
(* kept exactly by its radicand.  d is the depth of the call stack: a call *)
(* at depth RecursionLimit raises RecursionError, as the interpreter does. *)
(***************************************************************************)
Number(a, b) == [err |-> "", kind |-> "number", num |-> a, den |-> b]

Level(a, b) == [err |-> "", kind |-> "level", num |-> a, den |-> b]

Raise(e) == [err |-> e, kind |-> "number", num |-> 0, den |-> 1]

Raised(r) == r.err # ""

RECURSIVE GCD(_, _)
GCD(a, b) == IF b = 0 THEN a ELSE GCD(b, a % b)

Abs(a) == IF a < 0 THEN 0 - a ELSE a

\* The number a / b (b # 0) in lowest terms, with a positive denominator.
Reduced(a, b) ==
    LET g == GCD(Abs(a), Abs(b))
        sign == IF b < 0 THEN 0 - 1 ELSE 1
    IN Number(sign * (a \div g), sign * (b \div g))

\* a - b
Sub(a, b) ==
    LET g == GCD(a.den, b.den)
    IN Reduced((a.num * (b.den \div g)) - (b.num * (a.den \div g)), (a.den \div g) * b.den)

\* (a / b) * 100, true division: ZeroDivisionError when b is 0
DivTimes100(a, b) ==
    IF b.num = 0
       THEN Raise("ZeroDivisionError")
       ELSE LET q == Reduced(a.num, b.num)
                r == Reduced(b.den, a.den)
                t == Reduced(q.num * r.num, q.den * r.den)
                h == GCD(100, t.den)
            IN Number((100 \div h) * t.num, t.den \div h)

\* a <= b and a < b on numbers
Leq(a, b) == a.num * b.den <= b.num * a.den
Less(a, b) == a.num * b.den < b.num * a.den

\* max(x, 1)
MaxOne(x) == IF Less(x, Number(1, 1)) THEN Number(1, 1) ELSE x

\* ceil(0.07 * sqrt(a/b)), the least integer c >= 0 with (100 c)^2 * b >= 49 * a
RECURSIVE CeilFrom(_, _, _)
CeilFrom(c, a, b) == IF 10000 * c * c * b >= 49 * a THEN c ELSE CeilFrom(c + 1, a, b)

\* ceil(lv - 1) and ceil(lv - 2) for a level lv
CeilLevelMinus1(lv) == CeilFrom(0, lv.num, lv.den)
CeilLevelMinus2(lv) == CeilFrom(0, lv.num, lv.den) - 1

\* (c / 0.07) ** 2
Threshold(c) == Number(10000 * c * c, 49)

RECURSIVE score(_, _)
RECURSIVE level(_, _)
RECURSIVE prev_level_score(_, _)

\* The attribute the property `score` reads first: it names itself, `self.score`.
ScoreOperand(s, d) == score(s, d + 1)

\* @property score: return self.score - self.prev_level_score
score(s, d) ==
    IF d >= RecursionLimit
       THEN Raise("RecursionError")
       ELSE LET a == ScoreOperand(s, d)
            IN IF Raised(a)
                  THEN a
                  ELSE LET p == prev_level_score(s, d + 1)
                       IN IF Raised(p) THEN p ELSE Sub(a, p)

\* @property level: return (0.07 * sqrt(max(self.score, 1))) + 1
level(s, d) ==
    IF d >= RecursionLimit
       THEN Raise("RecursionError")
       ELSE LET a == score(s, d + 1)
            IN IF Raised(a)
                  THEN a
                  ELSE LET m == MaxOne(a) IN Level(m.num, m.den)

\* @property total_score: return self._score
total_score(s, d) ==
    IF d >= RecursionLimit THEN Raise("RecursionError") ELSE Number(s, 1)

\* @property next_level_score: return (ceil(self.level - 1) / 0.07) ** 2
next_level_score(s, d) ==
    IF d >= RecursionLimit
       THEN Raise("RecursionError")
       ELSE LET lv == level(s, d + 1)
            IN IF Raised(lv) THEN lv ELSE Threshold(CeilLevelMinus1(lv))

\* @property prev_level_score: return (ceil(self.level - 2) / 0.07) ** 2
prev_level_score(s, d) ==
    IF d >= RecursionLimit
       THEN Raise("RecursionError")
       ELSE LET lv == level(s, d + 1)
            IN IF Raised(lv) THEN lv ELSE Threshold(CeilLevelMinus2(lv))

\* self.current_level_score: ScoreObject has no attribute of that name.
current_level_score(s, d) == Raise("AttributeError")

\* @property progress:
\*   return (self.current_level_score / (self.next_level_score - self.prev_level_score)) * 100
progress(s, d) ==
    IF d >= RecursionLimit
       THEN Raise("RecursionError")
       ELSE LET c == current_level_score(s, d + 1)
            IN IF Raised(c)
                  THEN c
                  ELSE LET nx == next_level_score(s, d + 1)
                       IN IF Raised(nx)
                             THEN nx
                             ELSE LET pv == prev_level_score(s, d + 1)
                                  IN IF Raised(pv)
                                        THEN pv
                                        ELSE DivTimes100(c, Sub(nx, pv))

\* Scores at and next to the first whole-number threshold, (7 / 0.07) ** 2 = 10000.
BoundaryScores == {9999, 10000, 10001}

\* Scores below zero: the dataclass field and set_score take any int.
NegativeScores == {0 - 1, 0 - 100}

Scores == (0..MaxScore) \cup BoundaryScores \cup NegativeScores

\* ScoreObject(member_id, guild_id, score) / set_score(score)
set_score(s) ==
    /\ _score' = s
    /\ called' = "set_score"
    /\ result' = Number(0, 1)
    /\ UNCHANGED offScore

\* One read of a property of the object, from the caller's frame (depth 0).
Read(name, r) ==
    /\ called # "none"
    /\ called' = name
    /\ result' = r
    /\ UNCHANGED _score
    /\ UNCHANGED offScore

ReadLevel == Read("level", level(_score, 1))
ReadScore == Read("score", score(_score, 1))
ReadTotalScore == Read("total_score", total_score(_score, 1))
ReadNextLevelScore == Read("next_level_score", next_level_score(_score, 1))
ReadPrevLevelScore == Read("prev_level_score", prev_level_score(_score, 1))
ReadProgress == Read("progress", progress(_score, 1))

NextScore ==
    \/ \E s \in Scores : set_score(s)
    \/ ReadLevel
    \/ ReadScore
    \/ ReadTotalScore
    \/ ReadNextLevelScore
    \/ ReadPrevLevelScore
    \/ ReadProgress

SpecScore == Init /\ [][NextScore]_vars

(***************************************************************************)
(* The layout specification: __init__ and the planning loop of draw() for  *)
(* every member count get_scoreboard can hand over.                        *)
(***************************************************************************)
NextLayout ==
    \/ \E m \in 0..ScoreboardLimit : GridInit(m)
    \/ \E m \in 0..ScoreboardLimit : ListInit(m)
    \/ DrawBegin
    \/ PlanStep

SpecLayout == Init /\ [][NextLayout]_vars

(***************************************************************************)
(* The score table and the event listeners (src/src/ext/listeners.py; the  *)
(* handlers of src/src/bot/listeners.py and src/src/bot/levels.py run the  *)
(* same statements, without the bot test in on_member_join).               *)
(* (member_id, guild_id) is the key of a row: the INSERT of add_member     *)
(* raises IntegrityError for a pair that has one.                          *)
(***************************************************************************)
Members == {1, 2, 3}

Bots == {3}

Guilds == {1, 2}

\* The (member, guild) pairs the model lets be in a guild: everybody in guild 1,
\* members 1 and 2 in guild 2 as well.
Population == {<<1, 1>>, <<2, 1>>, <<3, 1>>, <<1, 2>>, <<2, 2>>}

MaxMessages == 1       \* on_message is delivered while the author's score is below SCORE_PER_MESSAGE * MaxMessages

SCORE_PER_MESSAGE == 30

\* The row INSERT INTO scores (member_id, guild_id) creates: the column defaults.
NewRow == [score |-> 0, active |-> 1]

Event(name, m, g, v) == [name |-> name, member |-> m, guild |-> g, value |-> v]

\* UPDATE scores SET active = a WHERE member_id = m AND guild_id = g
SetActive(tbl, m, g, a) ==
    [key \in DOMAIN tbl |->
        IF key = <<m, g>> THEN [tbl[key] EXCEPT !.active = a] ELSE tbl[key]]

\* INSERT, or on IntegrityError UPDATE ... SET active = 1
add_member(tbl, m, g) ==
    IF <<m, g>> \in DOMAIN tbl
       THEN SetActive(tbl, m, g, 1)
       ELSE [key \in DOMAIN tbl \cup {<<m, g>>} |->
                IF key = <<m, g>> THEN NewRow ELSE tbl[key]]

\* for member in guild.members: self.add_member(member.id, guild_id)
RECURSIVE AddEach(_, _, _)
AddEach(tbl, ms, g) ==
    IF ms = {}
       THEN tbl
       ELSE LET m == CHOOSE x \in ms : TRUE
            IN AddEach(add_member(tbl, m, g), ms \ {m}, g)

add_guild_members(tbl, g) == AddEach(tbl, {m \in Members : <<m, g>> \in roster}, g)

\* A remove_member that deletes the row.
remove_member_deleting(tbl, m, g) ==
    [key \in DOMAIN tbl \ {<<m, g>>} |-> tbl[key]]

\* UPDATE scores SET active = 0 WHERE member_id = ? AND guild_id = ?
remove_member(tbl, m, g) == SetActive(tbl, m, g, 0)

\* UPDATE scores SET active = 0 WHERE guild_id = ?
remove_guild_members(tbl, g) ==
    [key \in DOMAIN tbl |->
        IF key[2] = g THEN [tbl[key] EXCEPT !.active = 0] ELSE tbl[key]]

\* An UPDATE that leaves out `AND guild_id = ?`.
add_score_in_every_guild(tbl, m, g) ==
    [key \in DOMAIN tbl |->
        IF key[1] = m
           THEN [tbl[key] EXCEPT !.score = @ + SCORE_PER_MESSAGE]
           ELSE tbl[key]]

\* UPDATE scores SET score = score + 30 WHERE member_id = ? AND guild_id = ?
add_score(tbl, m, g) ==
    [key \in DOMAIN tbl |->
        IF key = <<m, g>>
           THEN [tbl[key] EXCEPT !.score = @ + SCORE_PER_MESSAGE]
           ELSE tbl[key]]

\* A member joins or leaves a guild the bot is not in: no event reaches the bot.
UnseenRosterChange(m, g) ==
    /\ <<m, g>> \in Population
    /\ g \notin guilds
    /\ roster' = IF <<m, g>> \in roster THEN roster \ {<<m, g>>} ELSE roster \cup {<<m, g>>}
    /\ event' = Event("unseen", m, g, 0)
    /\ UNCHANGED <<scores, guilds>>
    /\ UNCHANGED offStore

on_member_join(m, g) ==
    /\ <<m, g>> \in Population
    /\ g \in guilds
    /\ <<m, g>> \notin roster
    /\ roster' = roster \cup {<<m, g>>}
    /\ scores' = IF m \notin Bots THEN add_member(scores, m, g) ELSE scores
    /\ event' = Event("member_join", m, g, 0)
    /\ UNCHANGED guilds
    /\ UNCHANGED offStore

on_member_remove(m, g) ==
    /\ g \in guilds
    /\ <<m, g>> \in roster
    /\ roster' = roster \ {<<m, g>>}
    /\ scores' = remove_member(scores, m, g)
    /\ event' = Event("member_remove", m, g, 0)
    /\ UNCHANGED guilds
    /\ UNCHANGED offStore

on_guild_join(g) ==
    /\ g \notin guilds
    /\ guilds' = guilds \cup {g}
    /\ scores' = add_guild_members(scores, g)
    /\ event' = Event("guild_join", 0, g, 0)
    /\ UNCHANGED roster
    /\ UNCHANGED offStore

on_guild_remove(g) ==
    /\ g \in guilds
    /\ guilds' = guilds \ {g}
    /\ scores' = remove_guild_members(scores, g)
    /\ event' = Event("guild_remove", 0, g, 0)
    /\ UNCHANGED roster
    /\ UNCHANGED offStore

on_message(m, g) ==
    /\ g \in guilds
    /\ <<m, g>> \in roster
    /\ <<m, g>> \in DOMAIN scores => scores[<<m, g>>].score < SCORE_PER_MESSAGE * MaxMessages
    /\ scores' = IF m \in Bots THEN scores ELSE add_score(scores, m, g)
    /\ event' = Event("message", m, g, 0)
    /\ UNCHANGED <<roster, guilds>>
    /\ UNCHANGED offStore

\* The rows of guild g in the order of ORDER BY score DESC.
RECURSIVE OrderByScoreDesc(_, _)
OrderByScoreDesc(tbl, keys) ==
    IF keys = {}
       THEN <<>>
       ELSE LET top == CHOOSE r \in keys : \A q \in keys : tbl[q].score <= tbl[r].score
            IN <<top>> \o OrderByScoreDesc(tbl, keys \ {top})

\* A DENSE_RANK(): the rank after a group of peers is the group's rank plus one.
RECURSIVE DenseRankAt(_, _, _)
DenseRankAt(tbl, rows, i) ==
    IF i = 1
       THEN 1
       ELSE IF tbl[rows[i]].score = tbl[rows[i - 1]].score
               THEN DenseRankAt(tbl, rows, i - 1)
               ELSE DenseRankAt(tbl, rows, i - 1) + 1

\* RANK() OVER (ORDER BY score DESC) of row number i: the rank of its peer before
\* it, else its row number.
RECURSIVE RankAt(_, _, _)
RankAt(tbl, rows, i) ==
    IF i = 1
       THEN 1
       ELSE IF tbl[rows[i]].score = tbl[rows[i - 1]].score
               THEN RankAt(tbl, rows, i - 1)
               ELSE i

\* ScoreObject.rank: SELECT rank FROM (...) WHERE member_id = ?; 0 stands for None.
rank(tbl, m, g) ==
    LET rows == OrderByScoreDesc(tbl, {key \in DOMAIN tbl : key[2] = g})
    IN IF \E i \in 1..Len(rows) : rows[i] = <<m, g>>
          THEN RankAt(tbl, rows, CHOOSE i \in 1..Len(rows) : rows[i] = <<m, g>>)
          ELSE 0

\* One read of ScoreObject(m, g, score).rank
ReadRank(m, g) ==
    /\ <<m, g>> \in Population
    /\ event' = Event("rank", m, g, rank(scores, m, g))
    /\ UNCHANGED <<scores, roster, guilds>>
    /\ UNCHANGED offStore

NextStore ==
    \/ \E m \in Members, g \in Guilds : UnseenRosterChange(m, g)
    \/ \E m \in Members, g \in Guilds : on_member_join(m, g)
    \/ \E m \in Members, g \in Guilds : on_member_remove(m, g)
    \/ \E g \in Guilds : on_guild_join(g)
    \/ \E g \in Guilds : on_guild_remove(g)
    \/ \E m \in Members, g \in Guilds : on_message(m, g)
    \/ \E m \in Members, g \in Guilds : ReadRank(m, g)

SpecStore == Init /\ [][NextStore]_vars

(***************************************************************************)
(* get_scoreboard (src/src/bot/commands.py)                                *)
(***************************************************************************)
\* guild.get_member(member_id): the member, or None (0) when the id is not in the guild.
get_member(m, g) == IF <<m, g>> \in roster THEN m ELSE 0

\* The list comprehension over the selected rows.
members_and_scores(tbl, rows) ==
    [i \in 1..Len(rows) |->
        [member |-> get_member(rows[i][1], rows[i][2]),
         member_id |-> rows[i][1],
         score |-> tbl[rows[i]].score]]

\* get_scoreboard(guild): SELECT member_id, score FROM scores WHERE guild_id = ?
\* ORDER BY score DESC LIMIT 18, then the pairs handed to the scoreboard editor.
get_scoreboard(g) ==
    /\ g \in guilds
    /\ LET ordered == OrderByScoreDesc(scores, {key \in DOMAIN scores : key[2] = g})
           rows == SubSeq(ordered, 1, Min(Len(ordered), ScoreboardLimit))
       IN event' = Event("scoreboard", 0, g, members_and_scores(scores, rows))
    /\ UNCHANGED <<scores, roster, guilds>>
    /\ UNCHANGED offStore

NextBoard ==
    \/ NextStore
    \/ \E g \in Guilds : get_scoreboard(g)

SpecBoard == Init /\ [][NextBoard]_vars

(***************************************************************************)
(* on_ready (src/src/ext/listeners.py): the table is reconciled with the   *)
(* guilds after a time in which the bot received no events.                *)
(***************************************************************************)
\* While the bot is disconnected a member (a user account) joins or leaves one of
\* its guilds.
MissedRosterChange(m, g) ==
    /\ <<m, g>> \in Population
    /\ m \notin Bots
    /\ g \in guilds
    /\ roster' = IF <<m, g>> \in roster THEN roster \ {<<m, g>>} ELSE roster \cup {<<m, g>>}
    /\ event' = Event("missed", 0, 0, 0)
    /\ UNCHANGED <<scores, guilds>>
    /\ UNCHANGED offStore

\* While the bot is disconnected it is added to or removed from a guild.
MissedGuildChange(g) ==
    /\ guilds' = IF g \in guilds THEN guilds \ {g} ELSE guilds \cup {g}
    /\ event' = Event("missed", 0, 0, 0)
    /\ UNCHANGED <<scores, roster>>
    /\ UNCHANGED offStore

\* An UPDATE that leaves out `AND guild_id = ?`.
Revalidate_in_every_guild(tbl, m, active, g) ==
    LET member_exists == <<m, g>> \in roster
    IN IF member_exists # (active = 1)
          THEN [key \in DOMAIN tbl |->
                   IF key[1] = m
                      THEN [tbl[key] EXCEPT !.active = IF member_exists THEN 1 ELSE 0]
                      ELSE tbl[key]]
          ELSE tbl

\* The body of validate_existing_members' inner loop for the record
\* (member_id, active) and the guild g.
Revalidate(tbl, m, active, g) ==
    LET member_exists == <<m, g>> \in roster
    IN IF member_exists /\ active # 1
          THEN SetActive(tbl, m, g, 1)
          ELSE IF ~member_exists /\ active = 1
                  THEN SetActive(tbl, m, g, 0)
                  ELSE tbl

\* for guild in self.bot.guilds: ...
RECURSIVE RevalidateEach(_, _, _, _)
RevalidateEach(tbl, m, active, gs) ==
    IF gs = {}
       THEN tbl
       ELSE LET g == CHOOSE x \in gs : TRUE
            IN RevalidateEach(Revalidate(tbl, m, active, g), m, active, gs \ {g})

\* for member_id, active in members_data: ...  (members_data holds one record per
\* row of the table as it was read, `read`; the record carries no guild)
RECURSIVE ValidateRecords(_, _, _)
ValidateRecords(tbl, read, keys) ==
    IF keys = {}
       THEN tbl
       ELSE LET key == CHOOSE x \in keys : TRUE
            IN ValidateRecords(RevalidateEach(tbl, key[1], read[key].active, guilds),
                               read, keys \ {key})

validate_existing_members(tbl) == ValidateRecords(tbl, tbl, DOMAIN tbl)

\* for guild in self.bot.guilds: self.add_guild_members(guild.id)
RECURSIVE AddGuilds(_, _)
AddGuilds(tbl, gs) ==
    IF gs = {}
       THEN tbl
       ELSE LET g == CHOOSE x \in gs : TRUE
            IN AddGuilds(add_guild_members(tbl, g), gs \ {g})

add_all_members(tbl) == AddGuilds(tbl, guilds)

\* on_ready: validate_existing_members, then add_all_members; the event records
\* the table as validate_existing_members left it.
on_ready ==
    /\ LET validated == validate_existing_members(scores)
       IN /\ scores' = add_all_members(validated)
          /\ event' = Event("ready", 0, 0, validated)
    /\ UNCHANGED <<roster, guilds>>
    /\ UNCHANGED offStore

NextReady ==
    \/ \E g \in Guilds : on_guild_join(g)
    \/ \E m \in Members, g \in Guilds : on_message(m, g)
    \/ \E m \in Members, g \in Guilds : MissedRosterChange(m, g)
    \/ \E g \in Guilds : MissedGuildChange(g)
    \/ on_ready

SpecReady == Init /\ [][NextReady]_vars

(***************************************************************************)
(* get_status and ScoreEditor, the single-member card (src/src/image.py).  *)
(* A colour is named by its discord.Colour constructor, an icon by its     *)
(* shape and canvas; None is "None", and <<>> for a position.              *)
(***************************************************************************)
\* discord.Status, and a status discord.py does not know (member.status is then a str).
Statuses == {"online", "idle", "dnd", "offline", "invisible", "unknown"}

Resolved(colour, icon, position) ==
    [err |-> "", colour |-> colour, icon |-> icon, position |-> position]

Unresolved(e) == [err |-> e, colour |-> "None", icon |-> "None", position |-> <<>>]

\* A status table without a case for invisible.
get_status_without_invisible(status) ==
    CASE status = "online" -> Resolved("green", "None", <<>>)
      [] status = "idle" -> Resolved("dark_gold", "circle 50x50", <<5, 10>>)
      [] status = "dnd" -> Resolved("red", "rounded 50x12", <<20, 39>>)
      [] status = "offline" -> Resolved("light_grey", "circle 40x40", <<25, 25>>)
      [] OTHER -> Unresolved("ValueError")

\* get_status(status): match status: ... case _: raise ValueError
get_status(status) ==
    CASE status = "online" -> Resolved("green", "None", <<>>)
      [] status = "idle" -> Resolved("dark_gold", "circle 50x50", <<5, 10>>)
      [] status = "dnd" -> Resolved("red", "rounded 50x12", <<20, 39>>)
      [] status = "offline" -> Resolved("light_grey", "circle 40x40", <<25, 25>>)
      [] status = "invisible" -> Resolved("blurple", "None", <<>>)
      [] OTHER -> Unresolved("ValueError")

NoStatusImage == [colour |-> "None", icon |-> "None", at |-> <<>>]

NoBar == [err |-> "", kind |-> "none", num |-> 0, den |-> 1]

\* ScoreEditor(member, score_object)
CardInit(status, s) ==
    /\ member_status' = status
    /\ _score' = s
    /\ cardPc' = "__init__"
    /\ cardErr' = ""
    /\ status_image' = NoStatusImage
    /\ trough' = FALSE
    /\ bar' = NoBar
    /\ UNCHANGED <<called, result>>
    /\ UNCHANGED offCard

\* draw_status: the disc in the status colour, the icon pasted on it `if status_icon`.
draw_status ==
    /\ cardPc # "none"
    /\ cardErr = ""
    /\ cardPc' = "draw_status"
    /\ LET st == get_status(member_status)
       IN IF Raised(st)
             THEN /\ cardErr' = st.err
                  /\ UNCHANGED status_image
             ELSE /\ cardErr' = ""
                  /\ status_image' = [colour |-> st.colour,
                                      icon |-> st.icon,
                                      at |-> IF st.icon = "None" THEN <<>> ELSE st.position]
    /\ UNCHANGED <<member_status, trough, bar>>
    /\ UNCHANGED scoreVars
    /\ UNCHANGED offCard

\* max(progress, 5)
MaxFive(x) == IF Less(x, Number(5, 1)) THEN Number(5, 1) ELSE x

\* draw_progress: progress = self.score.progress, the trough, then the bar `if progress > 0`.
draw_progress ==
    /\ cardPc # "none"
    /\ cardErr = ""
    /\ cardPc' = "draw_progress"
    /\ LET pr == progress(_score, 1)
       IN IF Raised(pr)
             THEN /\ cardErr' = pr.err
                  /\ UNCHANGED <<trough, bar>>
             ELSE /\ cardErr' = ""
                  /\ trough' = TRUE
                  /\ bar' = IF Less(Number(0, 1), pr) THEN MaxFive(pr) ELSE bar
    /\ UNCHANGED <<member_status, status_image>>
    /\ UNCHANGED scoreVars
    /\ UNCHANGED offCard

NextCard ==
    \/ \E status \in Statuses, s \in Scores : CardInit(status, s)
    \/ draw_status
    \/ draw_progress

SpecCard == Init /\ [][NextCard]_vars

(***************************************************************************)
(* Properties                                                              *)
(***************************************************************************)
Running == {j \in Threads : pc[j] \in {"fetch", "stalled", "acquire", "text", "release", "append"}}

Finished == {j \in Threads : pc[j] = "done"}

InText == {j \in Threads : pc[j] = "text"}

AfterBarrier == mainPc \in {"paste", "finish", "drawn", "NetworkError"}

\* Where the panel of a pasted cell image lands on the master canvas.
PanelOrigin(p) == <<pasted[p].at[1] + BackgroundShift, pasted[p].at[2]>>

CeilDiv(a, b) == (a + b - 1) \div b

\* C1: whatever order the render threads complete in, the panel of member j's
\* cell lands on the position planned for j when the threads were created, no
\* cell is pasted twice, and a completed draw() has pasted exactly the cells of
\* the threads that finished.
C1_PlacementIndependentOfCompletion ==
    /\ \A p \in 1..Len(pasted) : PanelOrigin(p) = queue[pasted[p].cell.member]
    /\ \A p, q \in 1..Len(pasted) :
          pasted[p].cell.member = pasted[q].cell.member => p = q
    /\ mainPc = "drawn" => {pasted[p].cell.member : p \in 1..Len(pasted)} = Finished

\* C1 witness: a completed draw whose threads finished against the list order.
C1_Witness ==
    /\ mainPc = "drawn"
    /\ Len(pasted) = n
    /\ n >= 2
    /\ done[1].cell.member > done[2].cell.member

\* C2: nothing is pasted, and draw() does not get past its join loop, before
\* every render thread has terminated (returned or raised).
C2_JoinBarrier ==
    (Len(pasted) > 0 \/ AfterBarrier) => \A j \in 1..n : j \in Threads /\ Settled(j)

\* C2 witness: cells are being pasted although one thread ended by an exception.
C2_Witness ==
    /\ Len(pasted) > 0
    /\ \E j \in Threads : pc[j] = "AvatarFetchError"

\* C3: when exactly one avatar fetch failed and every other thread finished, the
\* completed scoreboard holds n cells, one of them a placeholder at the failed
\* member's position.
C3_PlaceholderForFailedFetch ==
    (/\ mainPc = "drawn"
     /\ Cardinality({j \in Threads : pc[j] = "AvatarFetchError"}) = 1
     /\ \A j \in Threads : pc[j] \in {"AvatarFetchError", "done"})
    => /\ Len(pasted) = n
       /\ \E p \in 1..Len(pasted) :
             /\ pasted[p].cell.kind = "placeholder"
             /\ pc[pasted[p].cell.member] = "AvatarFetchError"
             /\ PanelOrigin(p) = queue[pasted[p].cell.member]

\* C4: a thread is inside draw_level's editor.text call only while it holds the
\* lock, so at most one thread is inside it.
C4_TextUnderLock ==
    /\ \A j \in InText : lock = j
    /\ Cardinality(InText) <= 1

\* C5 as stated: cells are pasted in member-index order.
C5_PasteInIndexOrder ==
    \A p, q \in 1..Len(pasted) :
        p < q => pasted[p].cell.member < pasted[q].cell.member

\* C5 amended: after the join barrier the cells are pasted in the order of the
\* appends to `done` (the order the threads completed in), each at the position
\* its own thread was created with; a completed draw has pasted all of `done`.
C5_PasteInCompletionOrder ==
    /\ Len(pasted) <= Len(done)
    /\ \A p \in 1..Len(pasted) :
          /\ pasted[p].cell = done[p].cell
          /\ pasted[p].at = <<done[p].position[1] - PasteShift, done[p].position[2]>>
    /\ mainPc = "drawn" => Len(pasted) = Len(done)
    /\ Len(pasted) > 0 => \A j \in Threads : Settled(j)

\* C5 witness: a completed draw that pasted a later member's cell first.
C5_Witness ==
    /\ mainPc = "drawn"
    /\ Len(pasted) >= 2
    /\ pasted[1].cell.member > pasted[2].cell.member

\* A worker-pool size smaller than the member counts the model draws.
PoolCap == 3

\* C6: the number of render threads running at once never exceeds a cap that is
\* fixed in advance (here PoolCap) whatever the number of members.
C6_BoundedConcurrency == Cardinality(Running) <= PoolCap

\* C7: for the score s of the object, every threshold evaluation returns and
\* prev_level_score <= s < next_level_score.
C7_ScoreBetweenThresholds ==
    (_score >= 0 /\ called \in {"level", "next_level_score", "prev_level_score"}) =>
        LET pv == prev_level_score(_score, 1)
            nx == next_level_score(_score, 1)
        IN /\ ~Raised(level(_score, 1))
           /\ ~Raised(pv)
           /\ ~Raised(nx)
           /\ Leq(pv, Number(_score, 1))
           /\ Less(Number(_score, 1), nx)

\* C8: every Score Model property of a ScoreObject with a non-negative score
\* returns a value.
C8_ScoreModelDefined ==
    (_score >= 0 /\ called \in {"level", "score", "next_level_score", "prev_level_score", "progress"})
        => ~Raised(result)

\* C9: progress returns a value in [0, 100].
C9_ProgressInRange ==
    (_score >= 0 /\ called = "progress") =>
        /\ ~Raised(result)
        /\ Leq(Number(0, 1), result)
        /\ Leq(result, Number(100, 1))

\* C10: the canvas __init__ constructs is margin + min(N, maxColumns) * (cellWidth
\* + margin) wide and headerHeight + margin + ceil(N / maxColumns) * (cellHeight
\* + margin) high.
C10_CanvasSize ==
    mainPc \in {"constructed", "plan", "start"} =>
        canvas = <<MARGIN + (Min(n, MAX_COLS) * (COL_WIDTH + MARGIN)),
                   HEAD_HEIGHT + MARGIN + (CeilDiv(n, MAX_COLS) * (COL_HEIGHT + MARGIN))>>

\* The origin the layout gives the member at 0-based index i.
CellOrigin(i) ==
    <<MARGIN + ((i % MAX_COLS) * (COL_WIDTH + MARGIN)),
      HEAD_HEIGHT + MARGIN + ((i \div MAX_COLS) * (COL_HEIGHT + MARGIN))>>

\* C11: the position draw() binds to the render thread of the member at 0-based
\* index i is (margin + (i mod maxColumns) * (cellWidth + margin), headerHeight +
\* margin + (i div maxColumns) * (cellHeight + margin)); it is fixed when the
\* thread is created, before any thread runs.
C11_PlannedOrigin ==
    \A j \in 1..Len(queue) : queue[j] = CellOrigin(j - 1)

\* C11 witness: all 13 threads of a 13-member board are planned, the last one in
\* the first column of the third row.
C11_Witness ==
    /\ mainPc = "start"
    /\ n = 13
    /\ Len(queue) = 13
    /\ queue[13] = <<60, 1180>>
    /\ queue[7] = <<60, 720>>

\* C12: a scoreboard editor (grid or list) constructed with zero members raises
\* ValueError and no canvas exists; with members it does not raise.
C12_EmptyInputRaises ==
    /\ (mainPc # "new" /\ n = 0) => (mainPc = "ValueError" /\ canvas = <<0, 0>>)
    /\ mainPc = "ValueError" => (n = 0 /\ canvas = <<0, 0>>)

\* C12 witness: a constructor was called with an empty list and raised.
C12_Witness ==
    /\ mainPc = "ValueError"
    /\ n = 0
    /\ canvas = <<0, 0>>

JoinLeaveEvents == {"member_join", "member_remove", "guild_join", "guild_remove"}

\* Every row of the table is still there with the score it had.
RowsAndScoresKept ==
    \A key \in DOMAIN scores :
        /\ key \in DOMAIN scores'
        /\ scores'[key].score = scores[key].score

\* The table changed in nothing but the active flag of the rows in `keys`, now a.
OnlyActiveSet(keys, a) ==
    /\ DOMAIN scores' = DOMAIN scores
    /\ \A key \in DOMAIN scores :
          scores'[key] = IF key \in keys THEN [scores[key] EXCEPT !.active = a]
                                         ELSE scores[key]

\* C13: a member-join, member-leave, guild-join or guild-leave event deletes no
\* row and changes no score; a leave only sets active = 0 (on the member's row,
\* or on every row of the guild), and the join of a member who has a row only
\* sets active = 1 on it (the join of a bot account changes nothing).
C13_JoinLeaveKeepScores ==
    [][event'.name \in JoinLeaveEvents =>
          /\ RowsAndScoresKept
          /\ event'.name = "member_remove" =>
                OnlyActiveSet({<<event'.member, event'.guild>>}, 0)
          /\ event'.name = "guild_remove" =>
                OnlyActiveSet({key \in DOMAIN scores : key[2] = event'.guild}, 0)
          /\ (event'.name = "member_join" /\ <<event'.member, event'.guild>> \in DOMAIN scores) =>
                IF event'.member \in Bots
                   THEN scores' = scores
                   ELSE OnlyActiveSet({<<event'.member, event'.guild>>}, 1)]_vars

\* C13 witness: a member who left with a score has left once more after a
\* rejoin, or has rejoined: the row holds the score, with the flag of the event.
C13_Witness ==
    /\ event.name = "member_join"
    /\ <<event.member, event.guild>> \in DOMAIN scores
    /\ scores[<<event.member, event.guild>>].score = SCORE_PER_MESSAGE
    /\ scores[<<event.member, event.guild>>].active = 1

\* C14: the rank read for a member with a row is 1 plus the number of rows of
\* that guild with a strictly greater score.
C14_CompetitionRank ==
    (event.name = "rank" /\ <<event.member, event.guild>> \in DOMAIN scores) =>
        event.value = 1 + Cardinality({key \in DOMAIN scores :
                                          /\ key[2] = event.guild
                                          /\ scores[key].score >
                                                scores[<<event.member, event.guild>>].score})

\* C14 witness: two members tied on the top score have rank 1 and the third
\* member's rank, just read, is 3.
C14_Witness ==
    /\ event.name = "rank"
    /\ event.value = 3
    /\ \E a, b \in Members :
          /\ a # b
          /\ <<a, event.guild>> \in DOMAIN scores
          /\ <<b, event.guild>> \in DOMAIN scores
          /\ scores[<<a, event.guild>>].score = scores[<<b, event.guild>>].score
          /\ rank(scores, a, event.guild) = 1
          /\ rank(scores, b, event.guild) = 1

\* C15: level is non-decreasing on non-negative scores: when level is read at the
\* score b it returns a level, and for every score a with 0 <= a <= b, level(a)
\* returns a level that is at most it (levels compare as their radicands,
\* max(score, 1), do); level(0) = level(1).
C15_LevelMonotone ==
    (_score >= 0 /\ called = "level") =>
        /\ ~Raised(result)
        /\ \A a \in Scores :
              (0 <= a /\ a <= _score) =>
                  LET la == level(a, 1) IN ~Raised(la) /\ Leq(la, result)
        /\ level(0, 1) = level(1, 1)
        /\ ~Raised(level(0, 1))

\* The Score Model properties of ScoreObject.
ScoreModel == {"level", "score", "total_score", "next_level_score", "prev_level_score", "progress"}

\* C16: a Score Model property read on a negative score fails with InvalidScore.
C16_NegativeScoreInvalid ==
    (_score < 0 /\ called \in ScoreModel) => result.err = "InvalidScore"

\* C17: draw() never waits forever at its join loop: while it is in the loop and
\* a render thread is stalled, some step is still possible (another thread moves,
\* a join returns, or the wait is given up with RenderTimeout).
C17_JoinNeverBlocks ==
    (mainPc = "join" /\ \E j \in Threads : pc[j] = "stalled") => ENABLED Next

C19_ProgressBarFloor ==
    (cardPc = "draw_progress" /\ _score >= 0) =>
        /\ cardErr = ""
        /\ trough
        /\ LET pr == progress(_score, 1)
           IN /\ ~Raised(pr)
              /\ (bar # NoBar) <=> Less(Number(0, 1), pr)
              /\ (bar # NoBar) => (bar = MaxFive(pr) /\ Leq(Number(5, 1), bar))

\* C21 as stated: in the table validate_existing_members leaves, a row (m, g) has
\* active = 1 if and only if m is a member of guild g, and every row has the
\* score it had.
C21_ActiveIffMember ==
    [][event'.name = "ready" =>
          /\ DOMAIN event'.value = DOMAIN scores
          /\ \A key \in DOMAIN scores :
                /\ event'.value[key].score = scores[key].score
                /\ (event'.value[key].active = 1) <=> (key \in roster)]_vars

\* C21 amended: in the table validate_existing_members leaves, a row (m, g) of a
\* guild the bot is in has active = 1 if and only if m is in guild.members; a
\* row of any other guild is as it was; every row has the score it had.
C21_ActiveIffMemberOfBotGuild ==
    [][event'.name = "ready" =>
          /\ DOMAIN event'.value = DOMAIN scores
          /\ \A key \in DOMAIN scores :
                /\ event'.value[key].score = scores[key].score
                /\ IF key[2] \in guilds
                      THEN (event'.value[key].active = 1) <=> (key \in roster)
                      ELSE event'.value[key] = scores[key]]_vars

\* C21 witness: validate_existing_members has just deactivated the row of a member
\* who left one guild and kept the active row of the same member in another
\* guild, with the score of each.
C21_Witness ==
    /\ event.name = "ready"
    /\ guilds = Guilds
    /\ \E m \in Members :
          /\ <<m, 1>> \in DOMAIN event.value /\ <<m, 2>> \in DOMAIN event.value
          /\ <<m, 1>> \notin roster /\ <<m, 2>> \in roster
          /\ event.value[<<m, 1>>] = [score |-> SCORE_PER_MESSAGE, active |-> 0]
          /\ event.value[<<m, 2>>] = [score |-> 0, active |-> 1]

\* C22: every cell draw() plans lies inside the canvas __init__ made: origin.x +
\* cellWidth <= canvasWidth and origin.y + cellHeight <= canvasHeight.
C22_CellInsideCanvas ==
    \A j \in 1..Len(queue) :
        /\ queue[j][1] + COL_WIDTH <= canvas[1]
        /\ queue[j][2] + COL_HEIGHT <= canvas[2]

\* C23: a thread's lock.release() releases a lock that thread holds, and once all
\* render threads of a draw() have settled the lock is free, also when a rank
\* lookup raised.
C23_LockFreeWhenSettled ==
    [][/\ \A j \in Threads :
             (pc[j] = "release" /\ j \in DOMAIN pc' /\ pc'[j] = "append") => lock = j
       /\ (n' > 0 /\ Len(pc') = n' /\ \A j \in DOMAIN pc' :
               pc'[j] \in {"done", "AvatarFetchError", "RankError", "RuntimeError"})
             => lock' = 0]_vars

\* C24: every pair get_scoreboard hands to the scoreboard editor has a member (not
\* None) who is in the guild, and its row is active: rows deactivated by a leave
\* are not selected.
C24_ScoreboardOfCurrentMembers ==
    event.name = "scoreboard" =>
        \A i \in 1..Len(event.value) :
            /\ event.value[i].member # 0
            /\ <<event.value[i].member_id, event.guild>> \in roster
            /\ scores[<<event.value[i].member_id, event.guild>>].active = 1

\* C20: an on_message event of a non-bot author adds exactly 30 to the score of
\* the author's row in the message's guild and changes no other row and no
\* active flag; an on_message event of a bot author changes no row.
C20_MessageAddsThirty ==
    [][event'.name = "message" =>
          IF event'.member \in Bots
             THEN scores' = scores
             ELSE /\ DOMAIN scores' = DOMAIN scores
                  /\ \A key \in DOMAIN scores :
                        /\ scores'[key].active = scores[key].active
                        /\ scores'[key].score =
                              IF key = <<event'.member, event'.guild>>
                                 THEN scores[key].score + 30
                                 ELSE scores[key].score]_vars

\* C20 witness: the message of a member with rows in both guilds was counted in
\* the guild it was sent in, and not in the other.
C20_Witness ==
    /\ event.name = "message"
    /\ event.member \notin Bots
    /\ event.guild = 1
    /\ <<event.member, 1>> \in DOMAIN scores
    /\ <<event.member, 2>> \in DOMAIN scores
    /\ scores[<<event.member, 1>>].score = 30
    /\ scores[<<event.member, 2>>].score = 0

====
